---- MODULE Spec2Model ----
\* Model of scripts/analyze_xunit_percentage_changed.py: the report loader
\* (parse_junit_reports over junitparser 2.x objects), calculate_changed, and
\* the two threshold checks of main(). Durations and percentages are Python
\* floats (IEEE 754 binary64), computed bit for bit below.
EXTENDS Integers, Sequences, FiniteSets, TLC

\* ---------------------------------------------------------------------------
\* Arbitrary-precision naturals: little-endian sequences of base-2^15 limbs
\* with no high zero limb (zero is <<>>). Every parameter and LET name below is
\* distinct, so that TLC's lazy arguments never capture one another.
\* ---------------------------------------------------------------------------
LimbBits == 15
Base == 32768

RECURSIVE NFromInt(_)
NFromInt(ni) == IF ni = 0 THEN <<>> ELSE <<ni % Base>> \o NFromInt(ni \div Base)

RECURSIVE NNorm(_)
NNorm(nn) == IF nn = <<>> THEN nn
             ELSE IF nn[Len(nn)] = 0 THEN NNorm(SubSeq(nn, 1, Len(nn) - 1)) ELSE nn

Limb(la, li0) == IF li0 <= Len(la) THEN la[li0] ELSE 0

RECURSIVE NAddC(_, _, _, _)
NAddC(aa, ab, ai, ac) ==
    IF ai > Len(aa) /\ ai > Len(ab) THEN (IF ac = 0 THEN <<>> ELSE <<ac>>)
    ELSE LET asum == Limb(aa, ai) + Limb(ab, ai) + ac
         IN <<asum % Base>> \o NAddC(aa, ab, ai + 1, asum \div Base)
NAdd(pa, pb) == NAddC(pa, pb, 1, 0)

\* sa - sb for sa >= sb
RECURSIVE NSubB(_, _, _, _)
NSubB(sa, sb, si, sbr) ==
    IF si > Len(sa) THEN <<>>
    ELSE LET sdif == Limb(sa, si) - Limb(sb, si) - sbr
         IN IF sdif < 0 THEN <<sdif + Base>> \o NSubB(sa, sb, si + 1, 1)
                        ELSE <<sdif>> \o NSubB(sa, sb, si + 1, 0)
NSub(ma, mb) == NNorm(NSubB(ma, mb, 1, 0))

RECURSIVE NCmpFrom(_, _, _)
NCmpFrom(ca, cb, ci) ==
    IF ci = 0 THEN 0
    ELSE IF ca[ci] > cb[ci] THEN 1 ELSE IF ca[ci] < cb[ci] THEN -1
    ELSE NCmpFrom(ca, cb, ci - 1)
\* -1, 0 or 1 as ka < kb, ka = kb, ka > kb
NCmp(ka, kb) == IF Len(ka) > Len(kb) THEN 1 ELSE IF Len(ka) < Len(kb) THEN -1
                ELSE NCmpFrom(ka, kb, Len(ka))

\* xa * xk for 0 <= xk < Base
RECURSIVE NMulSC(_, _, _, _)
NMulSC(xa, xk, xi, xc) ==
    IF xi > Len(xa) THEN (IF xc = 0 THEN <<>> ELSE <<xc>>)
    ELSE LET xp == xa[xi] * xk + xc
         IN <<xp % Base>> \o NMulSC(xa, xk, xi + 1, xp \div Base)
NMulSmall(ya, yk) == IF yk = 0 THEN <<>> ELSE NMulSC(ya, yk, 1, 0)

RECURSIVE IntBitLen(_)
IntBitLen(bn) == IF bn = 0 THEN 0 ELSE 1 + IntBitLen(bn \div 2)
NBitLen(la2) == IF la2 = <<>> THEN 0 ELSE LimbBits * (Len(la2) - 1) + IntBitLen(la2[Len(la2)])
\* bit number bi (0 = least significant) of ba
NBit(ba, bi) == (Limb(ba, bi \div LimbBits + 1) \div 2^(bi % LimbBits)) % 2
\* ha * 2^hk
NShl(ha, hk) == IF ha = <<>> THEN <<>>
                ELSE NNorm([hj \in 1..(hk \div LimbBits) |-> 0]
                           \o NMulSmall(ha, 2^(hk % LimbBits)))
\* floor(ra / 2^rk)
NShr(ra, rk) ==
    LET rd == rk \div LimbBits
        rs == rk % LimbBits
        rn == Len(ra) - rd
    IN IF rn <= 0 THEN <<>>
       ELSE NNorm([rj \in 1..rn |-> (ra[rj + rd] \div 2^rs)
                                    + (Limb(ra, rj + rd + 1) % 2^rs) * 2^(LimbBits - rs)])
\* za mod 2^zk # 0
NLowNonZero(za, zk) == zk > 0 /\ NShl(NShr(za, zk), zk) # za

\* the largest digit sd in slo..shi with sb * sd <= sr (binary search)
RECURSIVE DigitSearch(_, _, _, _)
DigitSearch(sr, sb, slo, shi) ==
    IF slo >= shi THEN slo
    ELSE LET smid == (slo + shi + 1) \div 2
         IN IF NCmp(NMulSmall(sb, smid), sr) <= 0 THEN DigitSearch(sr, sb, smid, shi)
            ELSE DigitSearch(sr, sb, slo, smid - 1)

\* schoolbook long division in base 2^15, limbs of da from index dj down to 1,
\* with quotient dq and remainder dr so far
RECURSIVE NDivStep(_, _, _, _, _)
NDivStep(da, db, dj, dq, dr) ==
    IF dj = 0 THEN <<dq, dr>>
    ELSE LET dr1 == NNorm(<<da[dj]>> \o dr)
             dd == DigitSearch(dr1, db, 0, Base - 1)
             dq1 == NNorm(<<dd>> \o dq)
             dr2 == NSub(dr1, NMulSmall(db, dd))
         IN IF Len(dq1) >= 0 /\ Len(dr2) >= 0 THEN NDivStep(da, db, dj - 1, dq1, dr2)
            ELSE <<dq, dr>>
\* <<floor(qa / qb), qa mod qb>> for qb # 0
NDivMod(qa, qb) == NDivStep(qa, qb, Len(qa), <<>>, <<>>)

\* ---------------------------------------------------------------------------
\* Python float (IEEE 754 binary64, round half to even; all values here are in
\* the normal range): value = sgn * mant * 2^ex, mant of exactly 53 bits,
\* zero has mant = <<>>
\* ---------------------------------------------------------------------------
Prec == 53
FZero == [sgn |-> 1, mant |-> <<>>, ex |-> 0]
IsZero(iz) == iz.mant = <<>>

\* the double nearest to gs * gn * 2^ge
MakeDouble(gs, gn, ge) ==
    LET gl == NBitLen(gn) IN
    IF gn = <<>> THEN FZero
    ELSE IF gl <= Prec
      THEN [sgn |-> gs, mant |-> NShl(gn, Prec - gl), ex |-> ge - (Prec - gl)]
    ELSE LET gk == gl - Prec
             gq == NShr(gn, gk)
             gup == NBit(gn, gk - 1) = 1 /\ (NLowNonZero(gn, gk - 1) \/ NBit(gq, 0) = 1)
             gq2 == IF gup THEN NAdd(gq, <<1>>) ELSE gq
         IN IF NBitLen(gq2) > Prec
              THEN [sgn |-> gs, mant |-> NShr(gq2, 1), ex |-> ge + gk + 1]
              ELSE [sgn |-> gs, mant |-> gq2, ex |-> ge + gk]

\* float(fi) for an int fi
FFromInt(fi) == IF fi >= 0 THEN MakeDouble(1, NFromInt(fi), 0)
                ELSE MakeDouble(-1, NFromInt(-fi), 0)
\* -nx
FNeg(nx) == IF IsZero(nx) THEN nx ELSE [nx EXCEPT !.sgn = -@]

\* ux + uy, rounded once from the exact sum
FAdd(ux, uy) ==
    IF IsZero(ux) THEN uy ELSE IF IsZero(uy) THEN ux
    ELSE LET uem == IF ux.ex < uy.ex THEN ux.ex ELSE uy.ex
             uX == NShl(ux.mant, ux.ex - uem)
             uY == NShl(uy.mant, uy.ex - uem)
         IN IF ux.sgn = uy.sgn THEN MakeDouble(ux.sgn, NAdd(uX, uY), uem)
            ELSE IF NCmp(uX, uY) >= 0 THEN MakeDouble(ux.sgn, NSub(uX, uY), uem)
            ELSE MakeDouble(uy.sgn, NSub(uY, uX), uem)
\* vx - vy
FSub(vx, vy) == FAdd(vx, FNeg(vy))

\* wx * wc for a small int 0 <= wc < Base (wc is exact as a float)
FMulInt(wx, wc) == IF wc = 0 \/ IsZero(wx) THEN FZero
                   ELSE MakeDouble(wx.sgn, NMulSmall(wx.mant, wc), wx.ex)

\* tx / ty for ty # 0: 55 extra quotient bits plus a sticky bit, then one rounding
DivExtra == 55
FDiv(tx, ty) ==
    IF IsZero(tx) THEN FZero
    ELSE LET tqr == NDivMod(NShl(tx.mant, DivExtra), ty.mant)
             tn == NAdd(NShl(tqr[1], 1), IF tqr[2] = <<>> THEN <<>> ELSE <<1>>)
         IN MakeDouble(tx.sgn * ty.sgn, tn, tx.ex - ty.ex - DivExtra - 1)

\* float("<pp/qq as a decimal literal>"): correctly rounded, as float() parses
FFromRatio(pp, qq) ==
    IF pp = 0 THEN FZero
    ELSE LET pk == DivExtra + NBitLen(NFromInt(qq))
             pqr == NDivMod(NShl(NFromInt(pp), pk), NFromInt(qq))
             pn == NAdd(NShl(pqr[1], 1), IF pqr[2] = <<>> THEN <<>> ELSE <<1>>)
         IN MakeDouble(1, pn, -pk - 1)

\* sign of a float: -1, 0 or 1
FSign(sx) == IF IsZero(sx) THEN 0 ELSE sx.sgn
\* cx > cy
FGt(cx, cy) ==
    IF FSign(cx) # FSign(cy) THEN FSign(cx) > FSign(cy)
    ELSE IF FSign(cx) = 0 THEN FALSE
    ELSE LET cmag == IF cx.ex # cy.ex THEN (IF cx.ex > cy.ex THEN 1 ELSE -1)
                     ELSE NCmp(cx.mant, cy.mant)
         IN IF FSign(cx) = 1 THEN cmag = 1 ELSE cmag = -1

\* Exact products of naturals (used only to state error bounds of float results)
RECURSIVE NMul(_, _)
NMul(ea, eb) == IF eb = <<>> THEN <<>>
                ELSE NAdd(NMulSmall(ea, eb[1]), NShl(NMul(ea, Tail(eb)), LimbBits))

\* ---------------------------------------------------------------------------
\* Bounds and program constants
\* ---------------------------------------------------------------------------
NumKeys == 2
\* Test keys, in the order a report lists them
KeyOrder == [i \in 1..NumKeys |-> "S.C.t" \o ToString(i)]
Keys == {KeyOrder[i] : i \in 1..NumKeys}
\* junitparser's TestCase.time: float(time attribute), for the attribute
\* values "0", "10", "11" and "12.1"
TimeAttr(num, den) == FFromRatio(num, den)
Durs == {TimeAttr(0, 1), TimeAttr(10, 1), TimeAttr(11, 1), TimeAttr(121, 10)}
\* argparse default of -t/--threshold (an int, never converted)
DefaultThreshold == 10
\* Values a user can pass with -t on the command line (argparse keeps them as str)
CliThresholdVals == {10, 20}

\* A threshold as main() sees it: str = TRUE when it came from the command line.
Thresholds == {[str |-> FALSE, val |-> DefaultThreshold]}
              \cup {[str |-> TRUE, val |-> v] : v \in CliThresholdVals}

\* All Report Sets over Keys with durations in Durs
ReportSets == UNION {[S -> Durs] : S \in SUBSET Keys}

\* What a path given to parse_junit_reports is: missing, neither a file nor a
\* directory (e.g. /dev/null), an existing report that does not parse, or a
\* readable report
PathKinds == {"missing", "neither", "unparseable", "ok"}

\* ---------------------------------------------------------------------------
\* Helpers of main()
\* ---------------------------------------------------------------------------
\* The insertion orders a dict with key set S can have
Orders(S) == {o \in [1..Cardinality(S) -> S] : \A i, j \in DOMAIN o : i # j => o[i] # o[j]}

\* Partial sums sum() can reach over at most n durations (int 0 first)
RECURSIVE PartialSums(_)
PartialSums(n) == IF n = 0 THEN {FZero}
                  ELSE PartialSums(n - 1) \cup {FAdd(s, d) : s \in PartialSums(n - 1), d \in Durs}
\* float addition on the values sum() meets, computed once
AddTable == [s \in PartialSums(NumKeys - 1), d \in Durs |-> FAdd(s, d)]

\* sum(f.values()) for the dict f whose insertion order is o: 0 + v1 + v2 + ...
RECURSIVE SumFrom(_, _, _, _)
SumFrom(sf, so, si, sacc) == IF si > Len(so) THEN sacc
                             ELSE SumFrom(sf, so, si + 1, AddTable[sacc, sf[so[si]]])
SumValues(f, o) == SumFrom(f, o, 1, FZero)

\* Python `v > threshold` for a float v and an int threshold t
GtThreshold(v, t) == FGt(v, FFromInt(t))

\* calculate_changed with the percentage taken the wrong way round
CalcEntrySignFlip(b, c) == IF IsZero(b) THEN FZero
                           ELSE FMulInt(FDiv(FSub(b, c), b), 100)

\* one entry of calculate_changed: 0 if base[key] == 0, else
\* ((compare_to[key] - base[key]) / base[key]) * 100
CalcEntry(b, c) == IF IsZero(b) THEN FZero
                   ELSE FMulInt(FDiv(FSub(c, b), b), 100)
\* CalcEntry on every pair of durations, computed once
DeltaTable == [b \in Durs, c \in Durs |-> CalcEntry(b, c)]
CalculateChanged(base, compare_to) ==
    LET both == DOMAIN base \cap DOMAIN compare_to
    IN [k \in both |-> DeltaTable[base[k], compare_to[k]]]

\* (total_time_compare - total_time_base) / total_time_base * 100
TotalPctOf(tb, tc) == FMulInt(FDiv(FSub(tc, tb), tb), 100)
\* TotalPctOf on every pair of reachable totals, computed once
PctTable == [tb \in PartialSums(NumKeys) \ {FZero}, tc \in PartialSums(NumKeys) |-> TotalPctOf(tb, tc)]

\* ---------------------------------------------------------------------------
\* State of main()
\* ---------------------------------------------------------------------------
VARIABLES
    pc,          \* position in main()
    baseKind,    \* what options.base is (PathKinds)
    cmpKind,     \* what options.compare_to is (PathKinds)
    baseIn,      \* Report Set stored under options.base (if it is a readable report)
    cmpIn,       \* Report Set stored under options.compare_to
    thr,         \* options.threshold
    base,        \* local `base`
    compare_to,  \* local `compare_to`
    changed,     \* local `changed`
    calcDone,    \* calculate_changed has been called
    divided,     \* the total-time division has been reached
    total_time_base,     \* local `total_time_base`
    total_time_compare,  \* local `total_time_compare`
    outcome,     \* "none", "success", or the exception raised
    payload,     \* the ThresholdExceeded payload (offending mapping)
    errPath      \* the path the failing load was given

\* State of one parse_junit_reports(path) call
VARIABLES
    lmode,       \* what the path is: "missing", "neither", "file" or "dir"
    lfile,       \* the single report file (lmode = "file")
    lfiles,      \* files under the directory, in os.walk order (lmode = "dir")
    li,          \* index of the next file of the walk
    lparsed,     \* indices of the files handed to JUnitXml.fromfile
    retXml,      \* ret_xml
    lpc,         \* position in parse_junit_reports
    lresult,     \* the returned Report Set
    lerror       \* exception raised, or "none"

mainVars == <<pc, baseKind, cmpKind, baseIn, cmpIn, thr, base, compare_to, changed,
              calcDone, divided, total_time_base, total_time_compare, outcome, payload,
              errPath>>
loaderVars == <<lmode, lfile, lfiles, li, lparsed, retXml, lpc, lresult, lerror>>
vars == <<mainVars, loaderVars>>

EmptyMap == [k \in {} |-> 0]

\* ---------------------------------------------------------------------------
\* Report trees (junitparser 2.x objects) and the loader's helpers
\* ---------------------------------------------------------------------------
\* Items of the root of a single report file
MaxRootItems == 2
\* Items of the root of each report inside a directory
MaxDirRootItems == 1
\* Files under a directory
MaxDirFiles == 2

TestNames == {"t1", "t2"}
\* TestCase.time for the time attributes "1" and "2"
Times == {TimeAttr(1, 1), TimeAttr(2, 1)}
\* <testcase> elements
Cases == {[kind |-> "case", cls |-> "C", tname |-> n, time |-> t] :
            n \in TestNames, t \in Times}
\* <testsuite name="S"> elements nested below a root, holding one testcase
Suites == {[kind |-> "testsuite", name |-> "S", items |-> <<c>>] : c \in Cases}
Elems == Cases \cup Suites
SeqsUpTo(S, n) == UNION {[1..m -> S] : m \in 0..n}
\* The root of a report file, named "R", with items from els: JUnitXml.fromfile
\* gives a JUnitXml for a <testsuites> root and a TestSuite for a <testsuite> root
RootsOver(els, n) == {[kind |-> k, name |-> "R", items |-> its] :
                        k \in {"testsuites", "testsuite"}, its \in SeqsUpTo(els, n)}
\* Items of the reports inside a directory: testcases named t1 only, so that
\* files share keys
DirElems == {e \in Elems : e.kind = "case" /\ e.tname = "t1"}
            \cup {e \in Suites : e.items[1].tname = "t1"}
\* What JUnitXml.fromfile reads from a file that is not a report
NoTree == [kind |-> "testsuites", name |-> "R", items |-> <<>>]
\* the report stored in a file named "bxml"
BxmlTree == [kind |-> "testsuite", name |-> "R",
             items |-> <<[kind |-> "case", cls |-> "C", tname |-> "t2", time |-> TimeAttr(1, 1)]>>]
\* Files under a directory (valid = FALSE: not a parseable report): reports
\* named a.xml, a report and a non-report named bxml, and a file c.txt
DirFiles == {[fname |-> "a.xml", valid |-> TRUE, tree |-> t] : t \in RootsOver(DirElems, MaxDirRootItems)}
            \cup {[fname |-> f, valid |-> FALSE, tree |-> NoTree] : f \in {"a.xml", "bxml"}}
            \cup {[fname |-> "bxml", valid |-> TRUE, tree |-> BxmlTree],
                   [fname |-> "c.txt", valid |-> FALSE, tree |-> NoTree]}
NoFile == [fname |-> "a.xml", valid |-> FALSE, tree |-> NoTree]
SingleFiles == {[fname |-> "a.xml", valid |-> TRUE, tree |-> t] : t \in RootsOver(Elems, MaxRootItems)}
               \cup {NoFile}
\* JUnitXml(): an empty <testsuites> root without a name
EmptyJUnitXml == [kind |-> "testsuites", name |-> "None", items |-> <<>>]

\* str.endswith
EndsWith(str, suf) ==
    Len(str) >= Len(suf) /\ SubSeq(str, Len(str) - Len(suf) + 1, Len(str)) = suf

\* dict.update
DictUpdate(a, b) == [k \in DOMAIN a \cup DOMAIN b |-> IF k \in DOMAIN b THEN b[k] ELSE a[k]]

\* the items of a sequence that have the given kind, in order
ItemsOfKind(its, knd) == SelectSeq(its, LAMBDA e : e.kind = knd)

\* iter(TestSuite): its own testcases, then the testcases of each nested
\* testsuite (recursively), in document order
RECURSIVE SuiteCases(_)
RECURSIVE SuiteCasesOf(_, _)
SuiteCasesOf(sts, sti) ==
    IF sti > Len(sts) THEN <<>> ELSE SuiteCases(sts[sti]) \o SuiteCasesOf(sts, sti + 1)
SuiteCases(ts) == ItemsOfKind(ts.items, "case") \o SuiteCasesOf(ItemsOfKind(ts.items, "testsuite"), 1)

\* iter(JUnitXml): its child testsuites only
ChildSuites(jx) == ItemsOfKind(jx.items, "testsuite")

\* for item in xml
IterItems(xml) == IF xml.kind = "testsuites" THEN ChildSuites(xml) ELSE SuiteCases(xml)

\* ret_xml += other: a <testsuites> report adds its child testsuites; a
\* <testsuite> report adds a new testsuite of the same name holding its testcases
IAdd(acc, other) ==
    IF other.kind = "testsuites"
      THEN [acc EXCEPT !.items = @ \o ChildSuites(other)]
      ELSE [acc EXCEPT !.items = Append(@, [kind |-> "testsuite", name |-> other.name,
                                             items |-> SuiteCases(other)])]

\* convert_junit_to_dict with tests.update keeping the entries already present
RECURSIVE ConvertFirstWins(_)
RECURSIVE ConvItemsFirstWins(_, _, _, _)
ConvItemsFirstWins(fxml, fits, fi, facc) ==
    IF fi > Len(fits) THEN facc
    ELSE LET fit == fits[fi]
         IN ConvItemsFirstWins(fxml, fits, fi + 1,
              IF fit.kind = "testsuite"
                THEN DictUpdate(ConvertFirstWins(fit), facc)
                ELSE DictUpdate(facc, (fxml.name \o "." \o fit.cls \o "." \o fit.tname) :> fit.time))
ConvertFirstWins(xml) == ConvItemsFirstWins(xml, IterItems(xml), 1, EmptyMap)

\* convert_junit_to_dict over a tree whose iteration yields nested testsuites
\* as they are (each nested testsuite then names its own testcases)
RECURSIVE ConvertNestedSuites(_)
RECURSIVE ConvItemsNested(_, _, _, _)
ConvItemsNested(nxml, nits, ni, nacc) ==
    IF ni > Len(nits) THEN nacc
    ELSE LET nit == nits[ni]
         IN ConvItemsNested(nxml, nits, ni + 1,
              IF nit.kind = "testsuite"
                THEN DictUpdate(nacc, ConvertNestedSuites(nit))
                ELSE DictUpdate(nacc, (nxml.name \o "." \o nit.cls \o "." \o nit.tname) :> nit.time))
ConvertNestedSuites(xml) ==
    ConvItemsNested(xml, IF xml.kind = "testsuites" THEN ChildSuites(xml) ELSE xml.items, 1, EmptyMap)

\* convert_junit_to_dict(xml)
RECURSIVE ConvertJunitToDict(_)
RECURSIVE ConvItems(_, _, _, _)
ConvItems(cxml, cits, ci, cacc) ==
    IF ci > Len(cits) THEN cacc
    ELSE LET cit == cits[ci]
         IN ConvItems(cxml, cits, ci + 1,
              IF cit.kind = "testsuite"
                THEN DictUpdate(cacc, ConvertJunitToDict(cit))
                ELSE DictUpdate(cacc, (cxml.name \o "." \o cit.cls \o "." \o cit.tname) :> cit.time))
ConvertJunitToDict(xml) == ConvItems(xml, IterItems(xml), 1, EmptyMap)

LoaderIdle ==
    /\ lmode = "missing" /\ lfile = NoFile
    /\ lfiles = <<>> /\ li = 1 /\ lparsed = {} /\ retXml = EmptyJUnitXml
    /\ lpc = "idle" /\ lresult = EmptyMap /\ lerror = "none"

Init ==
    /\ pc = "load_base"
    /\ baseKind \in PathKinds
    /\ cmpKind \in PathKinds
    /\ IF baseKind = "ok" /\ cmpKind = "ok"
         THEN baseIn \in ReportSets /\ cmpIn \in ReportSets
         ELSE baseIn = EmptyMap /\ cmpIn = EmptyMap
    /\ thr \in Thresholds
    /\ base = EmptyMap
    /\ compare_to = EmptyMap
    /\ changed = EmptyMap
    /\ calcDone = FALSE
    /\ divided = FALSE
    /\ total_time_base = FZero
    /\ total_time_compare = FZero
    /\ outcome = "none"
    /\ payload = EmptyMap
    /\ errPath = "none"
    /\ LoaderIdle

\* the exception parse_junit_reports raises for a path of the given kind
LoadError(kind) == CASE kind = "missing" -> "FileNotFoundError"
                     [] kind = "neither" -> "UnboundLocalError"
                     [] kind = "unparseable" -> "ParseError"

\* loader that returns an empty Report Set for a missing base path
LoadBaseNoExistsCheck ==
    /\ pc = "load_base"
    /\ IF baseKind \in {"ok", "missing"}
         THEN /\ pc' = "load_compare"
              /\ base' = baseIn
              /\ UNCHANGED <<outcome, errPath>>
         ELSE /\ pc' = "done" /\ outcome' = LoadError(baseKind) /\ errPath' = "base"
              /\ UNCHANGED base
    /\ UNCHANGED <<baseKind, cmpKind, baseIn, cmpIn, thr, compare_to, changed, calcDone,
                   divided, total_time_base, total_time_compare, payload>>

\* base = parse_junit_reports(options.base)
LoadBase ==
    /\ pc = "load_base"
    /\ IF baseKind = "ok"
         THEN /\ pc' = "load_compare" /\ base' = baseIn
              /\ UNCHANGED <<outcome, errPath>>
         ELSE /\ pc' = "done" /\ outcome' = LoadError(baseKind) /\ errPath' = "base"
              /\ UNCHANGED base
    /\ UNCHANGED <<baseKind, cmpKind, baseIn, cmpIn, thr, compare_to, changed, calcDone,
                   divided, total_time_base, total_time_compare, payload>>

\* compare_to = parse_junit_reports(options.compare_to)
LoadCompare ==
    /\ pc = "load_compare"
    /\ IF cmpKind = "ok"
         THEN /\ pc' = "calc" /\ compare_to' = cmpIn
              /\ UNCHANGED <<outcome, errPath>>
         ELSE /\ pc' = "done" /\ outcome' = LoadError(cmpKind) /\ errPath' = "compare_to"
              /\ UNCHANGED compare_to
    /\ UNCHANGED <<baseKind, cmpKind, baseIn, cmpIn, thr, base, changed, calcDone,
                   divided, total_time_base, total_time_compare, payload>>

\* changed = calculate_changed(base, compare_to)
Calc ==
    /\ pc = "calc"
    /\ changed' = CalculateChanged(base, compare_to)
    /\ calcDone' = TRUE
    /\ pc' = "per_test"
    /\ UNCHANGED <<baseKind, cmpKind, baseIn, cmpIn, thr, base, compare_to, divided,
                   total_time_base, total_time_compare, outcome, payload, errPath>>

\* main() without the per-test check (the str comparison still raises)
PerTestCheckSkip ==
    /\ pc = "per_test"
    /\ IF thr.str /\ DOMAIN changed # {}
         THEN /\ pc' = "done" /\ outcome' = "TypeError" /\ payload' = EmptyMap
         ELSE /\ pc' = "aggregate" /\ UNCHANGED <<outcome, payload>>
    /\ UNCHANGED <<baseKind, cmpKind, baseIn, cmpIn, thr, base, compare_to, changed,
                   calcDone, divided, total_time_base, total_time_compare, errPath>>

\* over_threshold = {k: v for k, v in changed.items() if v > options.threshold}
\* (float > str raises TypeError as soon as one comparison is made)
PerTestCheck ==
    /\ pc = "per_test"
    /\ LET over == {k \in DOMAIN changed : GtThreshold(changed[k], thr.val)}
       IN IF thr.str /\ DOMAIN changed # {}
            THEN /\ pc' = "done" /\ outcome' = "TypeError" /\ payload' = EmptyMap
            ELSE IF over # {}
              THEN /\ pc' = "done" /\ outcome' = "ThresholdExceeded"
                   /\ payload' = [k \in over |-> changed[k]]
              ELSE /\ pc' = "aggregate" /\ UNCHANGED <<outcome, payload>>
    /\ UNCHANGED <<baseKind, cmpKind, baseIn, cmpIn, thr, base, compare_to, changed,
                   calcDone, divided, total_time_base, total_time_compare, errPath>>

\* total check guarded against a zero base total (treated as no change)
AggregateCheckZeroGuard ==
    /\ pc = "aggregate"
    /\ pc' = "done"
    /\ divided' = TRUE
    /\ \E ob \in Orders(DOMAIN base), oc \in Orders(DOMAIN compare_to) :
         LET additive == DOMAIN compare_to \ DOMAIN base
             tb == SumValues(base, ob)
             tc == SumValues(compare_to, oc)
         IN /\ total_time_base' = tb
            /\ total_time_compare' = tc
            /\ IF IsZero(tb)
                 THEN outcome' = "success" /\ payload' = EmptyMap
               ELSE IF thr.str
                 THEN outcome' = "TypeError" /\ payload' = EmptyMap
               ELSE IF GtThreshold(PctTable[tb, tc], thr.val)
                 THEN /\ outcome' = "ThresholdExceeded"
                      /\ payload' = [k \in additive |-> compare_to[k]]
               ELSE outcome' = "success" /\ payload' = EmptyMap
    /\ UNCHANGED <<baseKind, cmpKind, baseIn, cmpIn, thr, base, compare_to, changed,
                   calcDone, errPath>>

\* total check that fails on any increase of the total time
AggregateCheckAnyIncrease ==
    /\ pc = "aggregate"
    /\ pc' = "done"
    /\ divided' = TRUE
    /\ \E ob \in Orders(DOMAIN base), oc \in Orders(DOMAIN compare_to) :
         LET additive == DOMAIN compare_to \ DOMAIN base
             tb == SumValues(base, ob)
             tc == SumValues(compare_to, oc)
         IN /\ total_time_base' = tb
            /\ total_time_compare' = tc
            /\ IF IsZero(tb)
                 THEN outcome' = "ZeroDivisionError" /\ payload' = EmptyMap
               ELSE IF thr.str
                 THEN outcome' = "TypeError" /\ payload' = EmptyMap
               ELSE IF FGt(PctTable[tb, tc], FZero)
                 THEN /\ outcome' = "ThresholdExceeded"
                      /\ payload' = [k \in additive |-> compare_to[k]]
               ELSE outcome' = "success" /\ payload' = EmptyMap
    /\ UNCHANGED <<baseKind, cmpKind, baseIn, cmpIn, thr, base, compare_to, changed,
                   calcDone, errPath>>

\* additive / totals (sum() in the dicts' insertion order, which follows the
\* reports) / total_percentage_changed > options.threshold
AggregateCheck ==
    /\ pc = "aggregate"
    /\ pc' = "done"
    /\ divided' = TRUE
    /\ \E ob \in Orders(DOMAIN base), oc \in Orders(DOMAIN compare_to) :
         LET additive == DOMAIN compare_to \ DOMAIN base
             tb == SumValues(base, ob)
             tc == SumValues(compare_to, oc)
         IN /\ total_time_base' = tb
            /\ total_time_compare' = tc
            /\ IF IsZero(tb)
                 THEN outcome' = "ZeroDivisionError" /\ payload' = EmptyMap
               ELSE IF thr.str
                 THEN outcome' = "TypeError" /\ payload' = EmptyMap
               ELSE IF GtThreshold(PctTable[tb, tc], thr.val)
                 THEN /\ outcome' = "ThresholdExceeded"
                      /\ payload' = [k \in additive |-> compare_to[k]]
               ELSE outcome' = "success" /\ payload' = EmptyMap
    /\ UNCHANGED <<baseKind, cmpKind, baseIn, cmpIn, thr, base, compare_to, changed,
                   calcDone, errPath>>

Next == (LoadBase \/ LoadCompare \/ Calc \/ PerTestCheck \/ AggregateCheck)
        /\ UNCHANGED loaderVars

Spec == Init /\ [][Next]_vars

\* ---------------------------------------------------------------------------
\* parse_junit_reports(path)
\* ---------------------------------------------------------------------------
LoaderInit ==
    /\ pc = "load_base" /\ baseKind = "ok" /\ cmpKind = "ok"
    /\ baseIn = EmptyMap /\ cmpIn = EmptyMap
    /\ thr = [str |-> FALSE, val |-> DefaultThreshold]
    /\ base = EmptyMap /\ compare_to = EmptyMap /\ changed = EmptyMap
    /\ calcDone = FALSE /\ divided = FALSE
    /\ total_time_base = FZero /\ total_time_compare = FZero /\ outcome = "none"
    /\ payload = EmptyMap /\ errPath = "none"
    /\ \/ lmode \in {"missing", "neither"} /\ lfile = NoFile /\ lfiles = <<>>
       \/ lmode = "file" /\ lfile \in SingleFiles /\ lfiles = <<>>
       \/ lmode = "dir" /\ lfile = NoFile /\ lfiles \in SeqsUpTo(DirFiles, MaxDirFiles)
    /\ li = 1 /\ lparsed = {} /\ retXml = EmptyJUnitXml
    /\ lpc = "start" /\ lresult = EmptyMap /\ lerror = "none"

\* existence check, then JUnitXml.fromfile for a file or JUnitXml() for a
\* directory; for anything else ret_xml is never bound and line 59 raises
LoaderStart ==
    /\ lpc = "start"
    /\ CASE lmode = "missing" ->
              /\ lpc' = "done" /\ lerror' = "FileNotFoundError"
              /\ UNCHANGED <<retXml, lparsed>>
         [] lmode = "neither" ->
              /\ lpc' = "done" /\ lerror' = "UnboundLocalError"
              /\ UNCHANGED <<retXml, lparsed>>
         [] lmode = "file" ->
              IF lfile.valid
                THEN /\ lpc' = "convert" /\ retXml' = lfile.tree
                     /\ lparsed' = {0} /\ UNCHANGED lerror
                ELSE /\ lpc' = "done" /\ lerror' = "ParseError"
                     /\ lparsed' = {0} /\ UNCHANGED retXml
         [] lmode = "dir" ->
              /\ lpc' = "walk" /\ retXml' = EmptyJUnitXml
              /\ UNCHANGED <<lparsed, lerror>>
    /\ UNCHANGED <<lmode, lfile, lfiles, li, lresult>>

\* one file of the walk: if f.endswith("xml"): ret_xml += JUnitXml.fromfile(f)
LoaderWalkFile ==
    /\ lpc = "walk"
    /\ li <= Len(lfiles)
    /\ li' = li + 1
    /\ LET f == lfiles[li]
       IN IF ~EndsWith(f.fname, "xml")
            THEN UNCHANGED <<retXml, lparsed, lpc, lerror>>
          ELSE IF f.valid
            THEN /\ retXml' = IAdd(retXml, f.tree)
                 /\ lparsed' = lparsed \cup {li}
                 /\ UNCHANGED <<lpc, lerror>>
          ELSE /\ lparsed' = lparsed \cup {li}
               /\ lpc' = "done" /\ lerror' = "ParseError"
               /\ UNCHANGED retXml
    /\ UNCHANGED <<lmode, lfile, lfiles, lresult>>

\* return convert_junit_to_dict(ret_xml)
LoaderConvert ==
    /\ \/ lpc = "convert"
       \/ lpc = "walk" /\ li > Len(lfiles)
    /\ lpc' = "done"
    /\ lresult' = ConvertJunitToDict(retXml)
    /\ UNCHANGED <<lmode, lfile, lfiles, li, lparsed, retXml, lerror>>

LoaderNext == (LoaderStart \/ LoaderWalkFile \/ LoaderConvert) /\ UNCHANGED mainVars

LoaderSpec == LoaderInit /\ [][LoaderNext]_vars

\* ---------------------------------------------------------------------------
\* Exact arithmetic on float values, for stating error bounds: a dyadic
\* rational dsg * dmag * 2^dex with dsg in {-1, 0, 1}
\* ---------------------------------------------------------------------------
DyZero == [dsg |-> 0, dmag |-> <<>>, dex |-> 0]
\* the exact value of a float
ExactOf(fx) == IF IsZero(fx) THEN DyZero ELSE [dsg |-> fx.sgn, dmag |-> fx.mant, dex |-> fx.ex]
ExactInt(di) == ExactOf(FFromInt(di))
DyNeg(e1) == [e1 EXCEPT !.dsg = -@]
DyAdd(e2, e3) ==
    IF e2.dsg = 0 THEN e3 ELSE IF e3.dsg = 0 THEN e2
    ELSE LET dm == IF e2.dex < e3.dex THEN e2.dex ELSE e3.dex
             dA == NShl(e2.dmag, e2.dex - dm)
             dB == NShl(e3.dmag, e3.dex - dm)
         IN IF e2.dsg = e3.dsg THEN [dsg |-> e2.dsg, dmag |-> NAdd(dA, dB), dex |-> dm]
            ELSE IF NCmp(dA, dB) = 0 THEN DyZero
            ELSE IF NCmp(dA, dB) > 0 THEN [dsg |-> e2.dsg, dmag |-> NSub(dA, dB), dex |-> dm]
            ELSE [dsg |-> e3.dsg, dmag |-> NSub(dB, dA), dex |-> dm]
DyMul(e4, e5) ==
    IF e4.dsg = 0 \/ e5.dsg = 0 THEN DyZero
    ELSE [dsg |-> e4.dsg * e5.dsg, dmag |-> NMul(e4.dmag, e5.dmag), dex |-> e4.dex + e5.dex]
\* e7 * 2^dsh
DyShift(e7, dsh) == [e7 EXCEPT !.dex = @ + dsh]
DyAbs(e10) == IF e10.dsg = 0 THEN e10 ELSE [e10 EXCEPT !.dsg = 1]
\* e8 <= e9
DyLe(e8, e9) == DyAdd(e9, DyNeg(e8)).dsg >= 0

\* ---------------------------------------------------------------------------
\* Properties of main()
\* ---------------------------------------------------------------------------
\* keys of `changed` over the run's threshold, compared as numbers
OverThreshold == {k \in DOMAIN changed : GtThreshold(changed[k], thr.val)}
Additive == DOMAIN compare_to \ DOMAIN base
\* (total_time_compare - total_time_base) / total_time_base * 100 of this run
TotalPct == TotalPctOf(total_time_base, total_time_compare)

\* C1: if some delta strictly exceeds the threshold, the run fails with
\* ThresholdExceeded carrying exactly the offending deltas, without evaluating
\* the total-time check.
C1_Claim ==
    (pc = "done" /\ calcDone /\ OverThreshold # {})
      => /\ outcome = "ThresholdExceeded"
         /\ payload = [k \in OverThreshold |-> changed[k]]
         /\ ~divided

\* C2: when no delta exceeds the threshold, the run fails with ThresholdExceeded
\* (payload: the added tests and their durations) iff the total percentage
\* change exceeds the threshold, and returns normally otherwise.
C2_Claim ==
    (pc = "done" /\ calcDone /\ OverThreshold = {})
      => IF ~IsZero(total_time_base) /\ GtThreshold(TotalPct, thr.val)
           THEN /\ outcome = "ThresholdExceeded"
                /\ payload = [k \in Additive |-> compare_to[k]]
           ELSE outcome = "success"

\* C3: calculate_changed yields exactly the shared keys, 0 where the base
\* duration is 0, and (compare - base) / base * 100 elsewhere, as a float: the
\* result d differs from the exact quotient by a relative error of at most
\* 2^-50 (|d * base - 100 * (compare - base)| * 2^50 <= |100 * (compare - base)|).
C3_Theorem ==
    calcDone =>
      /\ DOMAIN changed = DOMAIN base \cap DOMAIN compare_to
      /\ \A k \in DOMAIN changed :
           IF IsZero(base[k])
             THEN IsZero(changed[k])
             ELSE LET exact100 == DyMul(ExactInt(100),
                                        DyAdd(ExactOf(compare_to[k]), DyNeg(ExactOf(base[k]))))
                      err == DyAdd(DyMul(ExactOf(changed[k]), ExactOf(base[k])), DyNeg(exact100))
                  IN DyLe(DyShift(DyAbs(err), 50), DyAbs(exact100))

C3_Witness ==
    /\ calcDone
    /\ \E k \in DOMAIN changed : IsZero(base[k]) /\ ~IsZero(compare_to[k])
    /\ \E k \in DOMAIN changed : ~IsZero(base[k]) /\ base[k] # compare_to[k]

\* main()'s outcome on loaded report sets b, c when the threshold is the number
\* t and the dicts' insertion orders are ob, oc
NumericOutcomeIn(b, c, t, ob, oc) ==
    LET ch == CalculateChanged(b, c)
        over == {k \in DOMAIN ch : GtThreshold(ch[k], t)}
        tb == SumValues(b, ob)
        tc == SumValues(c, oc)
    IN IF over # {} THEN "ThresholdExceeded"
       ELSE IF IsZero(tb) THEN "ZeroDivisionError"
       ELSE IF GtThreshold(PctTable[tb, tc], t) THEN "ThresholdExceeded"
       ELSE "success"
NumericOutcomes(b, c, t) ==
    {NumericOutcomeIn(b, c, t, ob, oc) : ob \in Orders(DOMAIN b), oc \in Orders(DOMAIN c)}

\* C4: a threshold T given with -t makes the run behave as with the number T
\* in place of the default (no error unrelated to the thresholds).
C4_Claim ==
    (pc = "done" /\ thr.str /\ calcDone)
      => outcome \in NumericOutcomes(base, compare_to, thr.val)

\* C8: a missing base or compare path fails the run with FileNotFoundError
\* carrying that path (base checked first), before any delta or total.
C8_Theorem ==
    /\ outcome = "FileNotFoundError" =>
         /\ pc = "done" /\ ~calcDone /\ ~divided
         /\ errPath = IF baseKind = "missing" THEN "base" ELSE "compare_to"
    /\ (pc = "done" /\ baseKind = "missing") => outcome = "FileNotFoundError"
    /\ (pc = "done" /\ baseKind = "ok" /\ cmpKind = "missing") => outcome = "FileNotFoundError"

C8_Witness == outcome = "FileNotFoundError" /\ errPath = "compare_to"

\* C9: past a passing per-test check, a zero total base duration ends the run
\* with ZeroDivisionError; a firing per-test check ends it with
\* ThresholdExceeded before any division.
C9_Theorem ==
    /\ (pc = "done" /\ divided /\ IsZero(total_time_base)) => outcome = "ZeroDivisionError"
    /\ (pc = "done" /\ calcDone /\ ~thr.str /\ OverThreshold # {})
         => outcome = "ThresholdExceeded" /\ ~divided

C9_Witness == pc = "done" /\ divided /\ IsZero(total_time_base) /\ DOMAIN compare_to # {}

\* exact sum of the durations of f over the keys in S (no rounding)
RECURSIVE DySumOver(_, _)
DySumOver(yf, yS) == IF yS = {} THEN DyZero
                     ELSE LET yk == CHOOSE yx \in yS : TRUE
                          IN DyAdd(ExactOf(yf[yk]), DySumOver(yf, yS \ {yk}))

\* the premises of C10: the per-test check passed against a numeric threshold,
\* compare adds no test and every shared base duration is positive
C10_Premises ==
    /\ pc = "done" /\ divided /\ ~thr.str
    /\ DOMAIN compare_to \subseteq DOMAIN base
    /\ \A k \in DOMAIN base \cap DOMAIN compare_to : ~IsZero(base[k])

\* C10: in exact arithmetic, under C10_Premises the total percentage change
\* (sum(compare) - sum(base)) / sum(base) * 100 is at most T, so the total
\* check does not fire; hence, past a passing per-test check, the exact total
\* check fires with an empty additive payload only if a shared test went from
\* 0 to a positive duration.
C10_Theorem ==
    LET eb == DySumOver(base, DOMAIN base)
        ec == DySumOver(compare_to, DOMAIN compare_to)
        exactFires == ~DyLe(DyMul(ExactInt(100), DyAdd(ec, DyNeg(eb))),
                            DyMul(ExactInt(thr.val), eb))
    IN /\ C10_Premises => ~exactFires
       /\ (pc = "done" /\ divided /\ ~thr.str /\ eb.dsg # 0 /\ exactFires
           /\ DOMAIN compare_to \subseteq DOMAIN base)
            => \E k \in DOMAIN base \cap DOMAIN compare_to :
                 IsZero(base[k]) /\ ~IsZero(compare_to[k])

C10_Witness ==
    /\ C10_Premises
    /\ \A k \in DOMAIN base : k \in DOMAIN compare_to /\ base[k] # compare_to[k]
    /\ Cardinality(DOMAIN base) = 2

\* ---------------------------------------------------------------------------
\* Properties of the loader
\* ---------------------------------------------------------------------------
\* the testcases at any depth below a node, in document order
RECURSIVE AllLeaves(_)
RECURSIVE AllLeavesOf(_, _)
AllLeavesOf(lts, lti) ==
    IF lti > Len(lts) THEN <<>>
    ELSE (IF lts[lti].kind = "case" THEN <<lts[lti]>> ELSE AllLeaves(lts[lti]))
         \o AllLeavesOf(lts, lti + 1)
AllLeaves(node) == AllLeavesOf(node.items, 1)

\* the keys p.<classname>.<name> of the testcases of a leaf sequence
LeafKeys(lvs, p) == {p \o "." \o lvs[i].cls \o "." \o lvs[i].tname : i \in 1..Len(lvs)}

HasNestedSuite(node) == \E i \in 1..Len(node.items) : node.items[i].kind = "testsuite"

\* C5: flattening keys every leaf test as <root name>.<classname>.<name>,
\* also inside nested suites.
C5_Claim ==
    (lmode = "file" /\ lpc = "done" /\ lerror = "none")
      => DOMAIN lresult = LeafKeys(AllLeaves(lfile.tree), lfile.tree.name)

\* C5 (amended): for a <testsuite> root every testcase at any depth is keyed
\* <root name>.<classname>.<name>; for a <testsuites> root each testcase inside
\* a child testsuite is keyed with that child's name, and testcases directly
\* under the root are dropped.
C5_Theorem ==
    (lmode = "file" /\ lpc = "done" /\ lerror = "none")
      => DOMAIN lresult =
           IF lfile.tree.kind = "testsuite"
             THEN LeafKeys(AllLeaves(lfile.tree), lfile.tree.name)
             ELSE UNION {LeafKeys(AllLeaves(lfile.tree.items[i]), lfile.tree.items[i].name) :
                           i \in {j \in 1..Len(lfile.tree.items) :
                                    lfile.tree.items[j].kind = "testsuite"}}

C5_Witness ==
    /\ lmode = "file" /\ lpc = "done" /\ lerror = "none"
    /\ lfile.tree.kind = "testsuite" /\ HasNestedSuite(lfile.tree)

\* C6: in a directory, exactly the files whose name ends in ".xml" are parsed;
\* other files are neither parsed nor cause an error.
C6_Claim ==
    lmode = "dir" =>
      /\ lparsed = {i \in 1..(li - 1) : EndsWith(lfiles[i].fname, ".xml")}
      /\ (lerror = "ParseError" => EndsWith(lfiles[li - 1].fname, ".xml"))

\* Report Set of the i-th file of the walk
FileMap(i) == ConvertJunitToDict(lfiles[i].tree)

====
